---- MODULE Spec2Model ----
(***************************************************************************)
(* LifeSynced calendar store: the appointments table of shared_db.py, its  *)
(* duplicate finder and its merge-write engine (save_appointments), the    *)
(* two suppression tables, query_events and the base-id extraction, with   *)
(* the timestamp helpers of timezone_utils.py, the query script            *)
(* calendar-ui/query_db_api.py and the script cleanup_duplicates.py.       *)
(* db_file tells whether the database file calendar.db exists.             *)
(*                                                                         *)
(* A timestamp string "YYYY-MM-DDTHH:MM:SS<suffix>" is the record          *)
(* [wall, sfx]: wall is the wall-clock reading of its 19-character prefix  *)
(* in seconds since 2025-01-01T00:00:00 and sfx the text after it.  The    *)
(* byte order SQLite compares TEXT by is then the order of wall, ties      *)
(* broken by the byte order of the suffix.                                 *)
(***************************************************************************)
EXTENDS Integers, Sequences, FiniteSets, TLC

VARIABLES appointments, ignored_base_ids, ignored_event_ids, clock, last,
          db_file

vars == <<appointments, ignored_base_ids, ignored_event_ids, clock, last, db_file>>

(***************************************************************************)
(* Bounds of the model.                                                    *)
(***************************************************************************)
\* number of calls of the store in a run; every call reads the clock once
MaxClock == 2
\* longest batch handed to save_appointments
MaxBatch == 2

(***************************************************************************)
(* Timestamp strings.                                                      *)
(***************************************************************************)
Text(w, s) == [wall |-> w, sfx |-> s]

\* the empty string '' (the default of a missing start_time)
EmptyText == Text(-1, "")

\* suffixes that datetime.fromisoformat accepts, with their UTC offset in
\* seconds; "" is a naive timestamp
SfxOffset == [s \in {"", "Z", "+00:00", "+01:00", "-08:00"} |->
                CASE s = "+01:00" -> 3600
                  [] s = "-08:00" -> 0 - 28800
                  [] OTHER -> 0]

\* byte order of the suffixes: end of string < '+' < '-' < 'X' < 'Z'
SfxRank(s) == CASE s = "" -> 0
                [] s = "+00:00" -> 1
                [] s = "+01:00" -> 2
                [] s = "-08:00" -> 3
                [] s = "X" -> 4
                [] s = "Z" -> 5

\* a <= b as SQLite compares two TEXT values (memcmp)
TextLeq(a, b) == \/ a.wall < b.wall
                 \/ a.wall = b.wall /\ SfxRank(a.sfx) <= SfxRank(b.sfx)

\* Python None for a datetime
NoDatetime == [wall |-> 0, aware |-> FALSE, utcoffset |-> 0, none |-> TRUE]

Datetime(w, a, o) == [wall |-> w, aware |-> a, utcoffset |-> o, none |-> FALSE]

normalize_to_utc(dt) ==
    IF ~dt.aware
    THEN Datetime(dt.wall, TRUE, 0)
    ELSE Datetime(dt.wall - dt.utcoffset, TRUE, 0)

parse_iso_datetime(iso_str) ==
    IF iso_str = EmptyText
    THEN NoDatetime
    ELSE LET sfx == IF iso_str.sfx = "Z" THEN "+00:00" ELSE iso_str.sfx
         IN  IF sfx \notin DOMAIN SfxOffset
             THEN NoDatetime
             ELSE IF sfx = ""
                  THEN Datetime(iso_str.wall, TRUE, 0)
                  ELSE Datetime(iso_str.wall, TRUE, SfxOffset[sfx])

\* datetime.isoformat() of an aware UTC datetime
isoformat(dt) == Text(dt.wall, "+00:00")

\* (a - b).total_seconds() of two UTC datetimes
total_seconds(a, b) == a.wall - b.wall

Abs(n) == IF n < 0 THEN 0 - n ELSE n

(***************************************************************************)
(* Values of the columns.                                                  *)
(***************************************************************************)
\* Python None / SQL NULL of a text value
Null == "<null>"

\* a Python list handed over as a column value: sqlite3 cannot bind it
ListValue == "<list>"

\* x or ''
OrEmpty(x) == IF x = Null THEN "" ELSE x

\* `not x` of an id or a source: None and '' are falsy
Falsy(x) == x = Null \/ x = ""

\* a = b in SQL: NULL equals nothing
SqlEq(a, b) == a # Null /\ b # Null /\ a = b

\* the keys a candidate event may carry
Columns == {"id", "subject", "start_time", "end_time", "location",
            "organizer_email", "organizer_name", "attendees", "body_preview",
            "is_all_day", "source"}

\* event_data.get(key, default); a candidate is a record of its values and
\* the set `keys` of the keys that it supplies
Get(event_data, key, default) ==
    IF key \in event_data.keys THEN event_data[key] ELSE default

(***************************************************************************)
(* The appointments table: a sequence of rows in rowid order.              *)
(***************************************************************************)
\* the comparison of ids that never matches
RowsWithIdNever(table, id) == {i \in DOMAIN table : FALSE}

\* WHERE id = ?
RowsWithId(table, id) == {i \in DOMAIN table : SqlEq(table[i].id, id)}

\* SELECT id, source FROM appointments WHERE id = ?  (fetchone)
SelectById(table, id) ==
    IF RowsWithId(table, id) = {}
    THEN Null
    ELSE table[CHOOSE i \in RowsWithId(table, id) :
                   \A j \in RowsWithId(table, id) : i <= j].id

\* the source column of the row with that id ('' when there is none)
SelectSource(table, id) ==
    IF RowsWithId(table, id) = {}
    THEN ""
    ELSE table[CHOOSE i \in RowsWithId(table, id) :
                   \A j \in RowsWithId(table, id) : i <= j].source

Ids(table) == {table[i].id : i \in DOMAIN table}

(***************************************************************************)
(* find_duplicate                                                          *)
(***************************************************************************)
\* seconds before and after the candidate's start that the SQL window spans
WindowSeconds == 60

\* two starts closer than this are the same start
ToleranceSeconds == 60

\* the rows the SELECT of find_duplicate returns
WindowRows(table, subject, source, time_window_start, time_window_end, exclude_id) ==
    {i \in DOMAIN table :
        /\ SqlEq(table[i].subject, subject)
        /\ SqlEq(table[i].source, source)
        /\ TextLeq(time_window_start, table[i].start_time)
        /\ TextLeq(table[i].start_time, time_window_end)
        /\ (~Falsy(exclude_id) => table[i].id # exclude_id)}

\* the SELECT is answered from idx_subject_source_time: rows come in the
\* order of their start_time text, then of their rowid
FetchedBefore(table, i, j) ==
    \/ table[i].start_time # table[j].start_time
       /\ TextLeq(table[i].start_time, table[j].start_time)
    \/ table[i].start_time = table[j].start_time /\ i < j

\* the check that takes any organizer for a match
OrganizerIgnored(organizer_email, row_org_email) == TRUE

\* (organizer_email or '') == (row_org_email or '')
OrganizerMatches(organizer_email, row_org_email) ==
    OrEmpty(organizer_email) = OrEmpty(row_org_email)

\* the checks made in Python on one fetched row
RowMatches(row, start_utc, organizer_email, exclude_id) ==
    /\ row.id # exclude_id
    /\ ~parse_iso_datetime(row.start_time).none
    /\ Abs(total_seconds(start_utc,
              normalize_to_utc(parse_iso_datetime(row.start_time)))) < ToleranceSeconds
    /\ OrganizerMatches(organizer_email, row.organizer_email)

find_duplicate(table, subject, start_time, organizer_email, source, exclude_id) ==
    LET start_dt == parse_iso_datetime(start_time) IN
    IF start_dt.none
    THEN Null
    ELSE LET start_utc == normalize_to_utc(start_dt)
             time_window_start == isoformat(Datetime(start_utc.wall - WindowSeconds, TRUE, 0))
             time_window_end == isoformat(Datetime(start_utc.wall + WindowSeconds, TRUE, 0))
             fetched == WindowRows(table, subject, source, time_window_start,
                                   time_window_end, exclude_id)
             hits == {i \in fetched :
                         RowMatches(table[i], start_utc, organizer_email, exclude_id)}
         IN  IF hits = {}
             THEN Null
             ELSE table[CHOOSE i \in hits :
                            \A j \in hits \ {i} : FetchedBefore(table, i, j)].id

(***************************************************************************)
(* save_appointments                                                       *)
(***************************************************************************)
\* the values that the UPDATE and the INSERT bind from the candidate
Values(event_data) ==
    [subject         |-> Get(event_data, "subject", ""),
     start_time      |-> Get(event_data, "start_time", EmptyText),
     end_time        |-> Get(event_data, "end_time", EmptyText),
     location        |-> Get(event_data, "location", ""),
     organizer_email |-> Get(event_data, "organizer_email", ""),
     organizer_name  |-> Get(event_data, "organizer_name", ""),
     attendees       |-> Get(event_data, "attendees", "[]"),
     body_preview    |-> Get(event_data, "body_preview", ""),
     is_all_day      |-> Get(event_data, "is_all_day", 0),
     source          |-> Get(event_data, "source", "")]

\* sqlite3 binds str, int and None; a list raises ProgrammingError
Bindable(values) == values.attendees # ListValue

\* the UPDATE that writes created_at as well, as INSERT OR REPLACE would
UpdateRowResetsCreatedAt(table, id, values, now) ==
    [i \in DOMAIN table |->
        IF i \in RowsWithId(table, id)
        THEN values @@ [id |-> table[i].id, created_at |-> now, updated_at |-> now]
        ELSE table[i]]

\* the statement that deletes the row it is to update
UpdateRowDeletes(table, id, values, now) ==
    LET Other(r) == ~SqlEq(r.id, id) IN SelectSeq(table, Other)

\* UPDATE appointments SET ... , updated_at = ? WHERE id = ?
UpdateRow(table, id, values, now) ==
    [i \in DOMAIN table |->
        IF i \in RowsWithId(table, id)
        THEN [table[i] EXCEPT !.subject = values.subject,
                              !.start_time = values.start_time,
                              !.end_time = values.end_time,
                              !.location = values.location,
                              !.organizer_email = values.organizer_email,
                              !.organizer_name = values.organizer_name,
                              !.attendees = values.attendees,
                              !.body_preview = values.body_preview,
                              !.is_all_day = values.is_all_day,
                              !.source = values.source,
                              !.updated_at = now]
        ELSE table[i]]

\* the row that INSERT INTO appointments VALUES (...) adds
NewRow(id, values, now) ==
    [id              |-> id,
     subject         |-> values.subject,
     start_time      |-> values.start_time,
     end_time        |-> values.end_time,
     location        |-> values.location,
     organizer_email |-> values.organizer_email,
     organizer_name  |-> values.organizer_name,
     attendees       |-> values.attendees,
     body_preview    |-> values.body_preview,
     is_all_day      |-> values.is_all_day,
     source          |-> values.source,
     created_at      |-> now,
     updated_at      |-> now]

\* id TEXT PRIMARY KEY: an INSERT of an id the table holds raises IntegrityError
PrimaryKeyViolated(table, id) == RowsWithId(table, id) # {}

\* deduplication_rules or {}, and the three .get() with their defaults
DefaultRules == [given |-> FALSE, source |-> "", precedence |-> [s \in {} |-> 0],
                 skip_same_source |-> FALSE]

EffectiveRules(deduplication_rules) ==
    IF deduplication_rules.given THEN deduplication_rules ELSE DefaultRules

\* precedence.get(source, 0)
PrecedenceGet(precedence, source) ==
    IF source \in DOMAIN precedence THEN precedence[source] ELSE 0

\* the check that updates a row found by its id only when precedence says so
ExistingDecisionNeedsRules(current_source, existing_source, precedence, skip_same_source) ==
    IF ~Falsy(current_source) /\ ~Falsy(existing_source)
       /\ PrecedenceGet(precedence, current_source)
              > PrecedenceGet(precedence, existing_source)
    THEN "update"
    ELSE "skip"

\* the check on a row found by its id that lets a lower priority write
ExistingDecisionLowerUpdates(current_source, existing_source, precedence, skip_same_source) ==
    IF ~Falsy(current_source) /\ ~Falsy(existing_source)
       /\ skip_same_source /\ current_source = existing_source
       /\ PrecedenceGet(precedence, current_source)
              = PrecedenceGet(precedence, existing_source)
    THEN "skip"
    ELSE "update"

\* the check on a row found by its id in which every tie keeps the row
ExistingDecisionTieSkips(current_source, existing_source, precedence, skip_same_source) ==
    IF ~Falsy(current_source) /\ ~Falsy(existing_source)
    THEN IF PrecedenceGet(precedence, current_source)
                > PrecedenceGet(precedence, existing_source)
         THEN "update"
         ELSE "skip"
    ELSE "update"

\* the precedence check on a row found by its id: "skip" or "update"
ExistingDecision(current_source, existing_source, precedence, skip_same_source) ==
    IF ~Falsy(current_source) /\ ~Falsy(existing_source)
    THEN LET current_precedence == PrecedenceGet(precedence, current_source)
             existing_precedence == PrecedenceGet(precedence, existing_source)
         IN  IF current_precedence < existing_precedence THEN "skip"
             ELSE IF current_precedence > existing_precedence THEN "update"
             ELSE IF skip_same_source /\ current_source = existing_source THEN "skip"
             ELSE "update"
    ELSE "update"

\* the check on a duplicate in which a higher priority falls through to the
\* INSERT instead of updating the duplicate
DuplicateDecisionHigherInserts(current_source, dup_source, precedence, skip_same_source) ==
    IF ~Falsy(current_source) /\ ~Falsy(dup_source)
    THEN LET current_precedence == PrecedenceGet(precedence, current_source)
             dup_precedence == PrecedenceGet(precedence, dup_source)
         IN  IF current_precedence < dup_precedence THEN "skip"
             ELSE IF skip_same_source /\ current_source = dup_source
                     /\ current_precedence = dup_precedence THEN "skip"
             ELSE "insert"
    ELSE "skip"

\* the check that overwrites the duplicate when a source is missing, as the
\* check on a row found by its id does
DuplicateDecisionOverwritesUnsourced(current_source, dup_source, precedence, skip_same_source) ==
    IF ~Falsy(current_source) /\ ~Falsy(dup_source)
    THEN LET current_precedence == PrecedenceGet(precedence, current_source)
             dup_precedence == PrecedenceGet(precedence, dup_source)
         IN  IF current_precedence < dup_precedence THEN "skip"
             ELSE IF current_precedence > dup_precedence THEN "update"
             ELSE IF skip_same_source /\ current_source = dup_source THEN "skip"
             ELSE "insert"
    ELSE "update"

\* the precedence check on a row found by find_duplicate: "skip", "update"
\* (of the duplicate's row) or "insert" (fall through to the INSERT)
DuplicateDecision(current_source, dup_source, precedence, skip_same_source) ==
    IF ~Falsy(current_source) /\ ~Falsy(dup_source)
    THEN LET current_precedence == PrecedenceGet(precedence, current_source)
             dup_precedence == PrecedenceGet(precedence, dup_source)
         IN  IF current_precedence < dup_precedence THEN "skip"
             ELSE IF current_precedence > dup_precedence THEN "update"
             ELSE IF skip_same_source /\ current_source = dup_source THEN "skip"
             ELSE "insert"
    ELSE "skip"

\* The state of one call: conn is the table as the call's own connection sees
\* it (its uncommitted writes included), raised tells that a statement raised.
StartOfCall(table) ==
    [conn |-> table, saved_count |-> 0, updated_count |-> 0, raised |-> FALSE]

\* an UPDATE that is not counted
ExecuteUpdateUncounted(st, id, values, now) ==
    IF ~Bindable(values)
    THEN [st EXCEPT !.raised = TRUE]
    ELSE [st EXCEPT !.conn = UpdateRow(st.conn, id, values, now)]

ExecuteUpdate(st, id, values, now) ==
    IF ~Bindable(values)
    THEN [st EXCEPT !.raised = TRUE]
    ELSE [st EXCEPT !.conn = UpdateRow(st.conn, id, values, now),
                    !.updated_count = st.updated_count + 1]

ExecuteInsert(st, id, values, now) ==
    IF ~Bindable(values) \/ PrimaryKeyViolated(st.conn, id)
    THEN [st EXCEPT !.raised = TRUE]
    ELSE [st EXCEPT !.conn = Append(st.conn, NewRow(id, values, now)),
                    !.saved_count = st.saved_count + 1]

\* a loop body that decides on the id of a candidate from the candidate's own
\* source field
ProcessEventByOwnSource(committed, st, event_data, rules, now) ==
    IF event_data.keys = {} THEN st
    ELSE LET event_id == Get(event_data, "id", Null) IN
    IF Falsy(event_id) THEN st
    ELSE LET existing == SelectById(st.conn, event_id) IN
    IF existing # Null
    THEN IF ExistingDecision(Get(event_data, "source", ""),
                             SelectSource(st.conn, existing),
                             rules.precedence, rules.skip_same_source) = "skip"
         THEN st
         ELSE ExecuteUpdate(st, event_id, Values(event_data), now)
    ELSE LET duplicate_id ==
                 find_duplicate(committed,
                                Get(event_data, "subject", ""),
                                Get(event_data, "start_time", EmptyText),
                                Get(event_data, "organizer_email", ""),
                                Get(event_data, "source", ""),
                                event_id)
         IN  IF ~Falsy(duplicate_id)
             THEN LET decision ==
                          DuplicateDecision(rules.source,
                                            SelectSource(st.conn, duplicate_id),
                                            rules.precedence, rules.skip_same_source)
                  IN  IF decision = "skip" THEN st
                      ELSE IF decision = "update"
                      THEN ExecuteUpdate(st, duplicate_id, Values(event_data), now)
                      ELSE ExecuteInsert(st, event_id, Values(event_data), now)
             ELSE ExecuteInsert(st, event_id, Values(event_data), now)

\* The body of the loop for one candidate.  find_duplicate opens a connection
\* of its own, so it reads the table as last committed; the statements of the
\* loop run on the call's connection.
ProcessEvent(committed, st, event_data, rules, now) ==
    IF event_data.keys = {} THEN st
    ELSE LET event_id == Get(event_data, "id", Null) IN
    IF Falsy(event_id) THEN st
    ELSE LET existing == SelectById(st.conn, event_id) IN
    IF existing # Null
    THEN IF ExistingDecision(rules.source, SelectSource(st.conn, existing),
                             rules.precedence, rules.skip_same_source) = "skip"
         THEN st
         ELSE ExecuteUpdate(st, event_id, Values(event_data), now)
    ELSE LET duplicate_id ==
                 find_duplicate(committed,
                                Get(event_data, "subject", ""),
                                Get(event_data, "start_time", EmptyText),
                                Get(event_data, "organizer_email", ""),
                                Get(event_data, "source", ""),
                                event_id)
         IN  IF ~Falsy(duplicate_id)
             THEN LET decision ==
                          DuplicateDecision(rules.source,
                                            SelectSource(st.conn, duplicate_id),
                                            rules.precedence, rules.skip_same_source)
                  IN  IF decision = "skip" THEN st
                      ELSE IF decision = "update"
                      THEN ExecuteUpdate(st, duplicate_id, Values(event_data), now)
                      ELSE ExecuteInsert(st, event_id, Values(event_data), now)
             ELSE ExecuteInsert(st, event_id, Values(event_data), now)

\* for event_data in appointments: an exception leaves the loop
RECURSIVE SaveLoop(_, _, _, _, _, _)
SaveLoop(committed, st, appts, i, rules, now) ==
    IF st.raised \/ i > Len(appts)
    THEN st
    ELSE SaveLoop(committed, ProcessEvent(committed, st, appts[i], rules, now),
                  appts, i + 1, rules, now)

\* what the call does to the table and what it returns: conn.commit() at the
\* end of the loop, a rollback of the whole transaction when a statement raised
save_appointments(table, appts, deduplication_rules, now) ==
    IF Len(appts) = 0
    THEN [table |-> table, counts |-> <<0, 0>>, raised |-> FALSE]
    ELSE LET st == SaveLoop(table, StartOfCall(table), appts, 1,
                            EffectiveRules(deduplication_rules), now)
         IN  IF st.raised
             THEN [table |-> table, counts |-> <<0, 0>>, raised |-> TRUE]
             ELSE [table |-> st.conn,
                   counts |-> <<st.saved_count, st.updated_count>>,
                   raised |-> FALSE]

(***************************************************************************)
(* The calls of the model and their inputs.                                *)
(***************************************************************************)
EventIds == {"A", "B"}

Sources == {"cal1", "cal2"}

\* 2025-01-01T10:00:00Z and 2025-01-01T11:00:00Z
Start0 == Text(36000, "Z")

End0 == Text(39600, "Z")

\* a candidate that supplies every key; its location tells which candidate
\* the values of a row come from
Event(id, subject, start_time, organizer_email, source, attendees) ==
    [keys            |-> Columns,
     id              |-> id,
     subject         |-> subject,
     start_time      |-> start_time,
     end_time        |-> End0,
     location        |-> id,
     organizer_email |-> organizer_email,
     organizer_name  |-> "",
     attendees       |-> attendees,
     body_preview    |-> "",
     is_all_day      |-> 0,
     source          |-> source]

\* the candidate without one of its keys
Without(event_data, key) == [event_data EXCEPT !.keys = event_data.keys \ {key}]

\* The candidates of save_appointments.  Of the same subject, start and
\* organizer: A from cal1, B from cal1 and from cal2, A and B without the key
\* source.  B from cal1 with another organizer, once with attendees that are
\* a list, which the storage cannot bind.
Events ==
    {Event("A", "S", Start0, "o1", "cal1", "[]")}
    \cup {Event("B", "S", Start0, "o1", s, "[]") : s \in Sources}
    \cup {Without(Event(id, "S", Start0, "o1", "", "[]"), "source") : id \in EventIds}
    \cup {Event("B", "S", Start0, "o2", "cal1", "[]"),
          Event("B", "S", Start0, "o2", "cal1", ListValue)}

RECURSIVE SeqsUpTo(_, _)
SeqsUpTo(S, n) ==
    IF n = 0 THEN {<<>>}
    ELSE SeqsUpTo(S, n - 1)
         \cup {Append(q, e) : q \in {p \in SeqsUpTo(S, n - 1) : Len(p) = n - 1}, e \in S}

Batches == SeqsUpTo(Events, MaxBatch)

NoPrecedence == [s \in {} |-> 0]

Cal2First == [cal1 |-> 1, cal2 |-> 2]

Cal1First == [cal1 |-> 2, cal2 |-> 1]

\* no rules; rules of either batch source without priorities, with and
\* without skip_same_source; rules of either batch source that put cal2
\* first; rules of the batch source cal2 that put cal1 first
RuleSets ==
    {DefaultRules}
    \cup {[given |-> TRUE, source |-> s, precedence |-> NoPrecedence,
           skip_same_source |-> k] : s \in Sources, k \in BOOLEAN}
    \cup {[given |-> TRUE, source |-> s, precedence |-> Cal2First,
           skip_same_source |-> FALSE] : s \in Sources}
    \cup {[given |-> TRUE, source |-> "cal2", precedence |-> Cal1First,
           skip_same_source |-> FALSE]}

\* The start times of the candidates of the duplicate finder: 10:00:00 UTC
\* written with Z, with +00:00, without offset and as 02:00:00-08:00;
\* 10:00:59Z and 10:01:00Z; a text that does not parse; the empty string.
StartForms ==
    {Start0, Text(36000, "+00:00"), Text(36000, ""), Text(7200, "-08:00"),
     Text(36059, "Z"), Text(36060, "Z"), Text(36000, "X"), EmptyText}

FindEvents ==
    {Event(id, "S", t, o, "cal1", "[]") :
        id \in EventIds, t \in StartForms, o \in {"o1", "", Null}}
    \cup {Event("B", "T", Start0, "o1", "cal1", "[]"),
          Event("B", "S", Start0, "o1", "cal2", "[]")}

\* no call has been made, or the caller has taken the result of the last one
NoCall == [op |-> "none", appts |-> <<>>, rules |-> DefaultRules, exclude_id |-> Null,
           before |-> <<>>, counts |-> <<0, 0>>, raised |-> FALSE, found |-> Null,
           event_id |-> <<>>, base_id |-> <<>>,
           id |-> Null, days_back |-> 0, days_ahead |-> 0, source |-> Null,
           events |-> <<>>, base_ids_before |-> {}, event_ids_before |-> {},
           subject |-> Null, reason |-> Null,
           dt1 |-> NoDatetime, dt2 |-> NoDatetime, tolerance_seconds |-> 0,
           result |-> FALSE,
           argv |-> <<>>, stdout |-> <<>>, stderr |-> <<>>, status |-> 0,
           opened |-> FALSE, db_file_before |-> TRUE]

Init ==
    /\ appointments = <<>>
    /\ ignored_base_ids = {}
    /\ ignored_event_ids = {}
    /\ clock = 0
    /\ last = NoCall
    /\ db_file = TRUE

\* One call of save_appointments.  datetime.now() is the clock, which moves on
\* with every call; last keeps the arguments, the table before the call and
\* what the call returned.
Save(batches, rulesets) ==
    /\ last = NoCall
    /\ clock < MaxClock
    /\ \E appts \in batches, rules \in rulesets :
          LET r == save_appointments(appointments, appts, rules, clock) IN
          /\ appointments' = r.table
          /\ last' = [NoCall EXCEPT !.op = "save_appointments", !.appts = appts,
                                    !.rules = rules, !.before = appointments,
                                    !.counts = r.counts, !.raised = r.raised]
    /\ clock' = clock + 1
    /\ UNCHANGED <<ignored_base_ids, ignored_event_ids, db_file>>

SaveAppointments == Save(Batches, RuleSets)

\* the caller takes the returned counts (or the exception) and goes on
CallerContinues ==
    /\ last # NoCall
    /\ last' = NoCall
    /\ UNCHANGED <<appointments, ignored_base_ids, ignored_event_ids, clock, db_file>>

Next == SaveAppointments \/ CallerContinues

Spec == Init /\ [][Next]_vars

(***************************************************************************)
(* The duplicate finder called on its own, on tables that single saves     *)
(* without rules have written.                                             *)
(***************************************************************************)
SaveStartForms == Save({<<e>> : e \in FindEvents}, {DefaultRules})

\* find_duplicate(subject, start_time, organizer_email, source, exclude_id)
\* with the values of a candidate and with or without its id to exclude
FindDuplicate ==
    /\ last = NoCall
    /\ \E e \in FindEvents : \E exclude_id \in {Null, e.id} :
          last' = [NoCall EXCEPT !.op = "find_duplicate", !.appts = <<e>>,
                                 !.exclude_id = exclude_id, !.before = appointments,
                                 !.found = find_duplicate(appointments, e.subject,
                                               e.start_time, e.organizer_email,
                                               e.source, exclude_id)]
    /\ UNCHANGED <<appointments, ignored_base_ids, ignored_event_ids, clock, db_file>>

NextFind == SaveStartForms \/ FindDuplicate \/ CallerContinues

SpecFind == Init /\ [][NextFind]_vars

(***************************************************************************)
(* get_base_id_from_event_id.  A Python str is the sequence of its           *)
(* characters.                                                             *)
(***************************************************************************)
\* str.isdigit() of one character
isdigit(c) == c \in {"0", "1", "2", "3", "4", "5", "6", "7", "8", "9"}

\* ch in s
Contains(s, ch) == \E i \in DOMAIN s : s[i] = ch

\* s.split(sep) for a separator of one character
RECURSIVE split(_, _)
split(s, sep) ==
    IF ~Contains(s, sep)
    THEN <<s>>
    ELSE LET k == CHOOSE i \in DOMAIN s :
                      s[i] = sep /\ \A j \in 1..(i - 1) : s[j] # sep
         IN  <<SubSeq(s, 1, k - 1)>> \o split(SubSeq(s, k + 1, Len(s)), sep)

\* sep.join(parts)
RECURSIVE join(_, _)
join(parts, sep) ==
    IF Len(parts) = 0 THEN <<>>
    ELSE IF Len(parts) = 1 THEN parts[1]
    ELSE parts[1] \o <<sep>> \o join(Tail(parts), sep)

\* the extraction that takes any character between the date and the time
get_base_id_any_separator(event_id) ==
    IF Contains(event_id, "_")
    THEN LET parts == split(event_id, "_")
             last_part == parts[Len(parts)]
         IN  IF /\ Len(parts) >= 2
                /\ Len(last_part) = 15
                /\ \A i \in 1..8 : isdigit(last_part[i])
                /\ \A i \in 10..15 : isdigit(last_part[i])
             THEN join(SubSeq(parts, 1, Len(parts) - 1), "_")
             ELSE event_id
    ELSE event_id

get_base_id_from_event_id(event_id) ==
    IF Contains(event_id, "_")
    THEN LET parts == split(event_id, "_")
             last_part == parts[Len(parts)]
         IN  IF /\ Len(parts) >= 2
                /\ Len(last_part) = 15
                /\ last_part[9] = "T"
                /\ \A i \in 1..8 : isdigit(last_part[i])
                /\ \A i \in 10..15 : isdigit(last_part[i])
             THEN join(SubSeq(parts, 1, Len(parts) - 1), "_")
             ELSE event_id
    ELSE event_id

\* 20251201 and 150000
DateDigits == <<"2", "0", "2", "5", "1", "2", "0", "1">>

TimeDigits == <<"1", "5", "0", "0", "0", "0">>

\* The parts that the ids of the extraction are made of: a timestamp; the
\* timestamp with t and with 0 for its T; with one digit less and with one
\* digit more; with a letter in the date and in the time; abc, def and the
\* empty part.
IdParts ==
    {DateDigits \o <<"T">> \o TimeDigits,
     DateDigits \o <<"t">> \o TimeDigits,
     DateDigits \o <<"0">> \o TimeDigits,
     DateDigits \o <<"T">> \o SubSeq(TimeDigits, 1, 5),
     DateDigits \o <<"T">> \o TimeDigits \o <<"0">>,
     <<"a">> \o Tail(DateDigits) \o <<"T">> \o TimeDigits,
     DateDigits \o <<"T">> \o SubSeq(TimeDigits, 1, 5) \o <<"a">>,
     <<"a", "b", "c">>,
     <<"d", "e", "f">>,
     <<>>}

\* the most parts of an id
MaxParts == 3

\* the ids: one to MaxParts parts joined by _
BaseIdInputs == {join(q, "_") : q \in SeqsUpTo(IdParts, MaxParts) \ {<<>>}}

\* get_base_id_from_event_id(event_id) of one of the ids
GetBaseId ==
    /\ last = NoCall
    /\ \E event_id \in BaseIdInputs :
          last' = [NoCall EXCEPT !.op = "get_base_id_from_event_id",
                                 !.event_id = event_id,
                                 !.base_id = get_base_id_from_event_id(event_id)]
    /\ UNCHANGED <<appointments, ignored_base_ids, ignored_event_ids, clock, db_file>>

NextBaseId == GetBaseId \/ CallerContinues

SpecBaseId == Init /\ [][NextBaseId]_vars

(***************************************************************************)
(* The suppression tables and query_events.  A suppression table is the     *)
(* set of its rows, one per key.                                           *)
(***************************************************************************)
\* SELECT base_id FROM ignored_base_ids
get_ignored_base_ids(table) == {r.base_id : r \in table}

\* a plain INSERT that leaves the row of that key in place
add_ignored_base_id_keeps_row(table, base_id, subject, reason, now) ==
    table \cup {[base_id |-> base_id, subject |-> subject, ignored_at |-> now,
                 reason |-> reason]}

\* INSERT OR REPLACE INTO ignored_base_ids: the row of that key, if any,
\* gives way to the new one
add_ignored_base_id(table, base_id, subject, reason, now) ==
    {r \in table : r.base_id # base_id}
    \cup {[base_id |-> base_id, subject |-> subject, ignored_at |-> now,
           reason |-> reason]}

\* DELETE FROM ignored_base_ids WHERE base_id = ?
remove_ignored_base_id(table, base_id) == {r \in table : r.base_id # base_id}

\* SELECT event_id FROM ignored_event_ids
get_ignored_event_ids(table) == {r.event_id : r \in table}

\* INSERT OR REPLACE INTO ignored_event_ids
add_ignored_event_id(table, event_id, subject, start_time, reason, now) ==
    {r \in table : r.event_id # event_id}
    \cup {[event_id |-> event_id, subject |-> subject, start_time |-> start_time,
           ignored_at |-> now, reason |-> reason]}

\* DELETE FROM ignored_event_ids WHERE event_id = ?
remove_ignored_event_id(table, event_id) == {r \in table : r.event_id # event_id}

\* two occurrences of the series s
Occ1 == "s_20251201T150000"

Occ2 == "s_20251201T160000"

\* the characters of the ids of the stored events
Characters ==
    [id \in {Occ1, Occ2, "s", "p"} |->
        CASE id = Occ1 -> <<"s", "_">> \o DateDigits \o <<"T">> \o TimeDigits
          [] id = Occ2 -> <<"s", "_">> \o DateDigits \o <<"T">>
                              \o <<"1", "6", "0", "0", "0", "0">>
          [] id = "s" -> <<"s">>
          [] id = "p" -> <<"p">>]

\* self.get_base_id_from_event_id(event_id) of a stored id
BaseIdOf(event_id) ==
    CHOOSE id \in DOMAIN Characters :
        Characters[id] = get_base_id_from_event_id(Characters[event_id])

\* datetime.date() as a day number: the clock of the model counts days
DateOf(now) == now

\* substr(start_time, 1, 10) as a day number: a timestamp string starts with
\* the date of its wall time
DatePrefix(start_time) == start_time.wall \div 86400

\* substr(start_time, 1, 10) >= ? AND substr(start_time, 1, 10) < ?
InDateWindow(start_time, start_date, end_date) ==
    /\ start_time # EmptyText
    /\ DatePrefix(start_time) >= start_date
    /\ DatePrefix(start_time) < end_date

\* the rows that the SELECT of query_events returns
SelectedRows(table, start_date, end_date, source) ==
    {i \in DOMAIN table :
        /\ InDateWindow(table[i].start_time, start_date, end_date)
        /\ (~Falsy(source) => SqlEq(table[i].source, source))}

\* ORDER BY start_time ASC: the rows of S by their start_time text, rows of
\* one start_time in rowid order
RECURSIVE OrderByStartTime(_, _)
OrderByStartTime(table, S) ==
    IF S = {} THEN <<>>
    ELSE LET first == CHOOSE i \in S : \A j \in S \ {i} : FetchedBefore(table, i, j)
         IN  <<first>> \o OrderByStartTime(table, S \ {first})

\* value or default
Or(value, default) == IF value = Null \/ value = "" THEN default ELSE value

\* the dict that query_events builds from a row
EventOfRow(row) ==
    [id              |-> row.id,
     subject         |-> row.subject,
     start_time      |-> row.start_time,
     end_time        |-> row.end_time,
     location        |-> Or(row.location, ""),
     organizer_email |-> Or(row.organizer_email, ""),
     organizer_name  |-> Or(row.organizer_name, ""),
     attendees       |-> Or(row.attendees, "[]"),
     body_preview    |-> Or(row.body_preview, ""),
     is_all_day      |-> row.is_all_day,
     source          |-> Or(row.source, "")]

\* the row is shown although its series is suppressed
SuppressedBySeriesNever(event_id, base_ids) == FALSE

\* base_id in ignored_base_ids
SuppressedBySeries(event_id, base_ids) == BaseIdOf(event_id) \in base_ids

\* the occurrence suppression that hides the whole series of the id
SuppressedByOccurrenceOfSeries(event_id, event_ids) ==
    \E e \in event_ids : BaseIdOf(e) = BaseIdOf(event_id)

\* event_id in ignored_event_ids
SuppressedByOccurrence(event_id, event_ids) == event_id \in event_ids

\* the window that leaves the end day out
WindowEndExclusive(now, days_ahead) == DateOf(now + days_ahead)

\* end_date + timedelta(days=1): the end of the window, itself left out
WindowEnd(now, days_ahead) == DateOf(now + days_ahead) + 1

\* start_date
WindowStart(now, days_back) == DateOf(now - days_back)

query_events(table, base_table, event_table, days_back, days_ahead, source, now) ==
    LET ignored_base_ids_ == get_ignored_base_ids(base_table)
        ignored_event_ids_ == get_ignored_event_ids(event_table)
        rows == OrderByStartTime(table,
                    SelectedRows(table, WindowStart(now, days_back),
                                 WindowEnd(now, days_ahead), source))
        Kept(i) == /\ ~SuppressedByOccurrence(table[i].id, ignored_event_ids_)
                   /\ ~SuppressedBySeries(table[i].id, ignored_base_ids_)
        kept == SelectSeq(rows, Kept)
    IN  [k \in DOMAIN kept |-> EventOfRow(table[kept[k]])]

\* 10:00:00Z on day d
StartOn(d) == Text(d * 86400 + 36000, "Z")

\* The stored events of the queries: the occurrence Occ1 on day 1; the
\* occurrence Occ2 on day 2, written as 23:30:00-08:00; the event whose id is
\* s itself, of source cal2, on day 2; the event p, once as a duplicate of
\* Occ1 and once of source cal2 on day 3.
QueryCandidates ==
    {Event(Occ1, "S", StartOn(1), "o1", "cal1", "[]"),
     Event(Occ2, "S", Text(2 * 86400 + 84600, "-08:00"), "o1", "cal1", "[]"),
     Event("s", "S", StartOn(2), "o1", "cal2", "[]"),
     Event("p", "S", StartOn(1), "o1", "cal1", "[]"),
     Event("p", "S", StartOn(3), "o1", "cal2", "[]")}

\* no rules, and the rules of the batch source cal2 that put cal2 first
QueryRuleSets ==
    {DefaultRules,
     [given |-> TRUE, source |-> "cal2", precedence |-> Cal2First,
      skip_same_source |-> FALSE]}

\* the keys given to the suppression calls: the series s and, as a base id
\* that no stored id has, the occurrence Occ1; the occurrence Occ1
BaseIdArgs == {"s", Occ1}

EventIdArgs == {Occ1}

\* the arguments of query_events
DaysArgs == {0, 1}

SourceArgs == {Null, "cal2"}

\* the call recorded with the tables as they were before it
Called(op) ==
    [NoCall EXCEPT !.op = op, !.before = appointments,
                   !.base_ids_before = ignored_base_ids,
                   !.event_ids_before = ignored_event_ids,
                   !.db_file_before = db_file]

SaveQueryCandidates == Save({<<e>> : e \in QueryCandidates}, QueryRuleSets)

\* ignoring a series that also clears the suppressions of its occurrences
AddIgnoredBaseIdClearsOccurrences ==
    /\ last = NoCall
    /\ \E base_id \in BaseIdArgs :
          /\ ignored_base_ids' = add_ignored_base_id(ignored_base_ids, base_id, "S",
                                                     "User ignored", clock)
          /\ ignored_event_ids' = {r \in ignored_event_ids :
                                      BaseIdOf(r.event_id) # BaseIdOf(base_id)}
          /\ last' = [Called("add_ignored_base_id") EXCEPT !.id = base_id]
    /\ UNCHANGED <<appointments, clock, db_file>>

AddIgnoredBaseId ==
    /\ last = NoCall
    /\ \E base_id \in BaseIdArgs :
          /\ ignored_base_ids' = add_ignored_base_id(ignored_base_ids, base_id, "S",
                                                     "User ignored", clock)
          /\ last' = [Called("add_ignored_base_id") EXCEPT !.id = base_id]
    /\ UNCHANGED <<appointments, ignored_event_ids, clock, db_file>>

RemoveIgnoredBaseId ==
    /\ last = NoCall
    /\ \E base_id \in BaseIdArgs :
          /\ ignored_base_ids' = remove_ignored_base_id(ignored_base_ids, base_id)
          /\ last' = [Called("remove_ignored_base_id") EXCEPT !.id = base_id]
    /\ UNCHANGED <<appointments, ignored_event_ids, clock, db_file>>

AddIgnoredEventId ==
    /\ last = NoCall
    /\ \E event_id \in EventIdArgs :
          /\ ignored_event_ids' = add_ignored_event_id(ignored_event_ids, event_id, "S",
                                                       StartOn(1), "User ignored", clock)
          /\ last' = [Called("add_ignored_event_id") EXCEPT !.id = event_id]
    /\ UNCHANGED <<appointments, ignored_base_ids, clock, db_file>>

RemoveIgnoredEventId ==
    /\ last = NoCall
    /\ \E event_id \in EventIdArgs :
          /\ ignored_event_ids' = remove_ignored_event_id(ignored_event_ids, event_id)
          /\ last' = [Called("remove_ignored_event_id") EXCEPT !.id = event_id]
    /\ UNCHANGED <<appointments, ignored_base_ids, clock, db_file>>

QueryEvents ==
    /\ last = NoCall
    /\ \E days_back \in DaysArgs, days_ahead \in DaysArgs, source \in SourceArgs :
          last' = [Called("query_events") EXCEPT
                      !.days_back = days_back, !.days_ahead = days_ahead,
                      !.source = source,
                      !.events = query_events(appointments, ignored_base_ids,
                                              ignored_event_ids, days_back,
                                              days_ahead, source, clock)]
    /\ UNCHANGED <<appointments, ignored_base_ids, ignored_event_ids, clock, db_file>>

NextQuery ==
    \/ SaveQueryCandidates
    \/ AddIgnoredBaseId
    \/ RemoveIgnoredBaseId
    \/ AddIgnoredEventId
    \/ RemoveIgnoredEventId
    \/ QueryEvents
    \/ CallerContinues

SpecQuery == Init /\ [][NextQuery]_vars

(***************************************************************************)
(* The suppression tables on their own: series and occurrences are ignored *)
(* under varying subjects and reasons and restored again, while saves of    *)
(* one occurrence let the time pass.                                       *)
(***************************************************************************)
Subjects == {"S", "T"}

\* reason defaults to "User ignored"
Reasons == {"User ignored", "r"}

SaveOccurrence ==
    Save({<<Event(Occ1, "S", StartOn(1), "o1", "cal1", "[]")>>},
         {DefaultRules})

IgnoreSeries ==
    /\ last = NoCall
    /\ \E base_id \in BaseIdArgs, subject \in Subjects, reason \in Reasons :
          /\ ignored_base_ids' = add_ignored_base_id(ignored_base_ids, base_id,
                                                     subject, reason, clock)
          /\ last' = [Called("add_ignored_base_id") EXCEPT
                         !.id = base_id, !.subject = subject, !.reason = reason]
    /\ UNCHANGED <<appointments, ignored_event_ids, clock, db_file>>

IgnoreOccurrence ==
    /\ last = NoCall
    /\ \E event_id \in EventIdArgs, subject \in Subjects, reason \in Reasons :
          /\ ignored_event_ids' = add_ignored_event_id(ignored_event_ids, event_id,
                                                       subject, StartOn(1), reason,
                                                       clock)
          /\ last' = [Called("add_ignored_event_id") EXCEPT
                         !.id = event_id, !.subject = subject, !.reason = reason]
    /\ UNCHANGED <<appointments, ignored_base_ids, clock, db_file>>

NextSuppress ==
    \/ SaveOccurrence
    \/ IgnoreSeries
    \/ RemoveIgnoredBaseId
    \/ IgnoreOccurrence
    \/ RemoveIgnoredEventId
    \/ CallerContinues

SpecSuppress == Init /\ [][NextSuppress]_vars

(***************************************************************************)
(* compare_datetimes                                                       *)
(***************************************************************************)
\* a comparison that also accepts a difference of exactly the tolerance
compare_datetimes_inclusive(dt1, dt2, tolerance_seconds) ==
    LET dt1_utc == normalize_to_utc(dt1)
        dt2_utc == normalize_to_utc(dt2)
        time_diff == Abs(total_seconds(dt1_utc, dt2_utc))
    IN  time_diff <= tolerance_seconds

compare_datetimes(dt1, dt2, tolerance_seconds) ==
    LET dt1_utc == normalize_to_utc(dt1)
        dt2_utc == normalize_to_utc(dt2)
        time_diff == Abs(total_seconds(dt1_utc, dt2_utc))
    IN  time_diff < tolerance_seconds

\* wall-clock readings around 10:00:00 and, one hour later, around 11:00:00
CompareWalls == {36000, 36001, 36059, 36060, 39600, 39660}

\* naive datetimes, and aware ones of the offsets 0, +01:00 and -08:00
CompareDatetimes ==
    {Datetime(w, FALSE, 0) : w \in CompareWalls}
    \cup {Datetime(w, TRUE, o) : w \in CompareWalls, o \in {0, 3600, 0 - 28800}}

\* tolerance_seconds defaults to 60
Tolerances == {0, 1, 60}

CompareDatetimesCall ==
    /\ last = NoCall
    /\ \E dt1 \in CompareDatetimes, dt2 \in CompareDatetimes,
          tolerance_seconds \in Tolerances :
          last' = [Called("compare_datetimes") EXCEPT
                      !.dt1 = dt1, !.dt2 = dt2,
                      !.tolerance_seconds = tolerance_seconds,
                      !.result = compare_datetimes(dt1, dt2, tolerance_seconds)]
    /\ UNCHANGED <<appointments, ignored_base_ids, ignored_event_ids, clock, db_file>>

NextCompare == CompareDatetimesCall \/ CallerContinues

SpecCompare == Init /\ [][NextCompare]_vars

(***************************************************************************)
(* Batches with candidates that save_appointments passes over: the empty   *)
(* candidate, a candidate without the key id and one whose id is ''.       *)
(***************************************************************************)
EmptyCandidate == [Event("A", "S", Start0, "o1", "cal1", "[]") EXCEPT !.keys = {}]

CountCandidates ==
    {EmptyCandidate,
     Without(Event("A", "S", Start0, "o1", "cal1", "[]"), "id"),
     Event("", "S", Start0, "o1", "cal1", "[]"),
     Event("A", "S", Start0, "o1", "cal1", "[]"),
     Event("B", "S", Start0, "o1", "cal1", "[]"),
     Event("B", "S", Start0, "o2", "cal1", "[]")}

\* no rules; the batch source cal1 without priorities; the batch source cal2
\* that the mapping puts first
CountRuleSets ==
    {DefaultRules,
     [given |-> TRUE, source |-> "cal1", precedence |-> NoPrecedence,
      skip_same_source |-> FALSE],
     [given |-> TRUE, source |-> "cal2", precedence |-> Cal2First,
      skip_same_source |-> FALSE]}

SaveCountCandidates == Save(SeqsUpTo(CountCandidates, MaxBatch), CountRuleSets)

NextCounts == SaveCountCandidates \/ CallerContinues

SpecCounts == Init /\ [][NextCounts]_vars

(***************************************************************************)
(* Saves under one priority mapping, each batch of the source that its    *)
(* rules name: cal1 is mapped below zero, cal2 above, cal3 is not mapped.  *)
(***************************************************************************)
PriorityMapping == [cal1 |-> 0 - 1, cal2 |-> 2]

PrioritySources == {"cal1", "cal2", "cal3"}

\* the candidates A and B of one source, the same event under two ids
CandidatesOf(source) == {Event(id, "S", Start0, "o1", source, "[]") : id \in EventIds}

SaveSourcedBatch ==
    \E source \in PrioritySources, skip_same_source \in BOOLEAN :
        Save(SeqsUpTo(CandidatesOf(source), MaxBatch),
             {[given |-> TRUE, source |-> source, precedence |-> PriorityMapping,
               skip_same_source |-> skip_same_source]})

NextPriority == SaveSourcedBatch \/ CallerContinues

SpecPriority == Init /\ [][NextPriority]_vars

(***************************************************************************)
(* The query script calendar-ui/query_db_api.py.  Its arguments are        *)
(* sequences of characters; what it prints to a stream is the sequence of  *)
(* the values it has written there as JSON.                                *)
(***************************************************************************)
\* str.strip() of blanks, which int() applies to its argument
RECURSIVE lstrip(_)
lstrip(s) == IF s # <<>> /\ s[1] = " " THEN lstrip(Tail(s)) ELSE s

RECURSIVE rstrip(_)
rstrip(s) ==
    IF s # <<>> /\ s[Len(s)] = " " THEN rstrip(SubSeq(s, 1, Len(s) - 1)) ELSE s

DecimalDigits == <<"0", "1", "2", "3", "4", "5", "6", "7", "8", "9">>

DigitValue(c) == (CHOOSE i \in DOMAIN DecimalDigits : DecimalDigits[i] = c) - 1

\* the digits of an integer literal: digits with single underscores between
IsDigits(s) ==
    /\ s # <<>>
    /\ isdigit(s[1]) /\ isdigit(s[Len(s)])
    /\ \A i \in DOMAIN s : isdigit(s[i]) \/ s[i] = "_"
    /\ \A i \in 1..(Len(s) - 1) : ~(s[i] = "_" /\ s[i + 1] = "_")

RECURSIVE DigitsValue(_, _)
DigitsValue(s, acc) ==
    IF s = <<>> THEN acc
    ELSE IF s[1] = "_" THEN DigitsValue(Tail(s), acc)
    ELSE DigitsValue(Tail(s), acc * 10 + DigitValue(s[1]))

\* int(text) of a str: the value, or error for ValueError
int(text) ==
    LET t == rstrip(lstrip(text))
        signed == t # <<>> /\ t[1] \in {"+", "-"}
        body == IF signed THEN Tail(t) ELSE t
    IN  IF IsDigits(body)
        THEN [error |-> FALSE,
              value |-> IF signed /\ t[1] = "-"
                        THEN 0 - DigitsValue(body, 0)
                        ELSE DigitsValue(body, 0)]
        ELSE [error |-> TRUE, value |-> 0]

\* print(json.dumps({'error': ...}), file=sys.stderr); sys.exit(1)
ExitWithError(message, opened) ==
    [stdout |-> <<>>, stderr |-> <<[error |-> message]>>, status |-> 1,
     opened |-> opened]

\* a script that opens the database before it looks at its argument
main_opens_first(argv, exists, table, base_table, event_table, now) ==
    LET days_ahead == IF Len(argv) > 1 THEN int(argv[2])
                      ELSE [error |-> FALSE, value |-> 30]
    IN  IF days_ahead.error
        THEN ExitWithError("Invalid days_ahead parameter", TRUE)
        ELSE IF days_ahead.value < 0 \/ days_ahead.value > 365
        THEN ExitWithError("days_ahead must be between 0 and 365", TRUE)
        ELSE [stdout |-> <<query_events(table, base_table, event_table, 0,
                                        days_ahead.value, Null, now)>>,
              stderr |-> <<>>, status |-> 0, opened |-> TRUE]

\* main() with sys.argv = argv (argv[1] is the name of the script, argv[2]
\* is sys.argv[1]); exists is DB_PATH.exists().  opened tells whether
\* CalendarDatabase(str(DB_PATH)) was constructed, which connects to the
\* file and so creates it.
main(argv, exists, table, base_table, event_table, now) ==
    LET days_ahead == IF Len(argv) > 1 THEN int(argv[2])
                      ELSE [error |-> FALSE, value |-> 30]
    IN  IF days_ahead.error
        THEN ExitWithError("Invalid days_ahead parameter", FALSE)
        ELSE IF days_ahead.value < 0 \/ days_ahead.value > 365
        THEN ExitWithError("days_ahead must be between 0 and 365", FALSE)
        ELSE IF ~exists
        THEN ExitWithError("Database not found", FALSE)
        ELSE [stdout |-> <<query_events(table, base_table, event_table, 0,
                                        days_ahead.value, Null, now)>>,
              stderr |-> <<>>, status |-> 0, opened |-> TRUE]

\* the texts 30, 0, 365, 2, +1, " 1 ", 1_0, 366, -1, abc, 3.5, the empty
\* text, 1e2, _1, --1 and 1__0
LookaheadTexts ==
    {<<"3", "0">>, <<"0">>, <<"3", "6", "5">>, <<"2">>, <<"+", "1">>,
     <<" ", "1", " ">>, <<"1", "_", "0">>,
     <<"3", "6", "6">>, <<"-", "1">>, <<"a", "b", "c">>, <<"3", ".", "5">>,
     <<>>, <<"1", "e", "2">>, <<"_", "1">>, <<"-", "-", "1">>,
     <<"1", "_", "_", "0">>}

\* sys.argv: the script alone, with one argument, with one more after it
ScriptArgv ==
    {<<"query_db_api.py">>}
    \cup {<<"query_db_api.py", t>> : t \in LookaheadTexts}
    \cup {<<"query_db_api.py", t, <<"x">> >> : t \in {<<"2">>, <<"a", "b", "c">>}}

\* the machine before the first run: calendar.db may not exist yet
InitScript ==
    /\ appointments = <<>>
    /\ ignored_base_ids = {}
    /\ ignored_event_ids = {}
    /\ clock = 0
    /\ last = NoCall
    /\ db_file \in BOOLEAN

\* CalendarDatabase(db_path) of a sync script: connects, which creates the
\* file, and creates the tables
CreateStore ==
    /\ last = NoCall
    /\ ~db_file
    /\ db_file' = TRUE
    /\ last' = Called("CalendarDatabase")
    /\ UNCHANGED <<appointments, ignored_base_ids, ignored_event_ids, clock>>

SaveInStore == db_file /\ SaveQueryCandidates

RunQueryScript ==
    /\ last = NoCall
    /\ \E argv \in ScriptArgv :
          LET r == main(argv, db_file, appointments, ignored_base_ids,
                        ignored_event_ids, clock)
          IN  /\ db_file' = (db_file \/ r.opened)
              /\ last' = [Called("query_db_api") EXCEPT
                             !.argv = argv, !.stdout = r.stdout,
                             !.stderr = r.stderr, !.status = r.status,
                             !.opened = r.opened]
    /\ UNCHANGED <<appointments, ignored_base_ids, ignored_event_ids, clock>>

NextScript == CreateStore \/ SaveInStore \/ RunQueryScript \/ CallerContinues

SpecScript == InitScript /\ [][NextScript]_vars

(***************************************************************************)
(* The script cleanup_duplicates.py.  SQL leaves the order of rows of      *)
(* equal created_at open, so a run takes one of the orders of the ids      *)
(* that ORDER BY created_at ASC allows.                                    *)
(***************************************************************************)
\* SELECT DISTINCT source FROM appointments WHERE source IS NOT NULL
DistinctSources(table) == {table[i].source : i \in DOMAIN table} \ {Null}

\* the orders of the ids of the table by ascending created_at
Orders(table) ==
    {order \in [1..Len(table) -> Ids(table)] :
        /\ \A i, j \in 1..Len(table) : i # j => order[i] # order[j]
        /\ \A i, j \in 1..Len(table) :
              i < j => table[CHOOSE k \in DOMAIN table : table[k].id = order[i]].created_at
                       <= table[CHOOSE k \in DOMAIN table : table[k].id = order[j]].created_at}

\* SELECT ... FROM appointments WHERE source = ? ORDER BY created_at ASC
EventsOfSource(table, source, order) ==
    LET row(id) == table[CHOOSE k \in DOMAIN table : table[k].id = id]
    IN  SelectSeq([i \in DOMAIN order |->
                      IF order[i] \in Ids(table) THEN row(order[i])
                      ELSE [source |-> Null]],
                  LAMBDA r : SqlEq(r.source, source))

\* key = (subject, start_utc.isoformat(), org_email) with
\* org_email = organizer_email or ''
CleanupKey(r) ==
    <<r.subject, isoformat(normalize_to_utc(parse_iso_datetime(r.start_time))),
      OrEmpty(r.organizer_email)>>

\* for event in events: the ids to remove, seen being the keys met so far
RECURSIVE ToRemove(_, _, _)
ToRemove(events, i, seen) ==
    IF i > Len(events) THEN {}
    ELSE IF parse_iso_datetime(events[i].start_time).none
    THEN ToRemove(events, i + 1, seen)
    ELSE IF CleanupKey(events[i]) \in seen
    THEN {events[i].id} \cup ToRemove(events, i + 1, seen)
    ELSE ToRemove(events, i + 1, seen \cup {CleanupKey(events[i])})

\* DELETE FROM appointments WHERE id = ? for each id to remove
DeleteIds(table, ids) == SelectSeq(table, LAMBDA r : r.id \notin ids)

\* the body of the loop for a source that is not None
CleanSource(table, source, order) ==
    DeleteIds(table, ToRemove(EventsOfSource(table, source, order), 1, {}))

\* for source in sources, the sources that are not None
RECURSIVE CleanSources(_, _, _)
CleanSources(table, sources, order) ==
    IF sources = {} THEN table
    ELSE LET source == CHOOSE x \in sources : TRUE
         IN  CleanSources(CleanSource(table, source, order), sources \ {source},
                          order)

\* UPDATE appointments SET source = 'ics' WHERE source IS NULL
NullSourcesToIcs(table) ==
    [i \in DOMAIN table |->
        IF table[i].source = Null THEN [table[i] EXCEPT !.source = "ics"]
        ELSE table[i]]

\* main() of cleanup_duplicates.py: None is appended to the sources only
\* when there is a source
cleanup_duplicates(table, order) ==
    LET sources == DistinctSources(table)
        cleaned == CleanSources(table, sources, order)
    IN  IF sources # {}
        THEN CleanSource(NullSourcesToIcs(cleaned), "ics", order)
        ELSE cleaned

\* 10:00:00 UTC written as 02:00:00-08:00, and a start that does not parse
StartWest == Text(7200, "-08:00")

StartUnparsable == Text(36000, "X")

\* The stored events of the cleanup: A and B of cal1, the same event; B with
\* the start written in another zone; A and B without source (None); B of
\* ics; A and B with a start that does not parse; A with the organizer ''
\* and B with the organizer None.
CleanupCandidates ==
    {Event("A", "S", Start0, "o1", "cal1", "[]"),
     Event("B", "S", Start0, "o1", "cal1", "[]"),
     Event("B", "S", StartWest, "o1", "cal1", "[]"),
     Event("A", "S", Start0, "o1", Null, "[]"),
     Event("B", "S", Start0, "o1", Null, "[]"),
     Event("B", "S", Start0, "o1", "ics", "[]"),
     Event("A", "S", StartUnparsable, "o1", "cal1", "[]"),
     Event("B", "S", StartUnparsable, "o1", "cal1", "[]"),
     Event("A", "S", Start0, "", "cal1", "[]"),
     Event("B", "S", Start0, Null, "cal1", "[]")}

\* no rules, and the rules of the batch source cal1 without priorities
CleanupRuleSets ==
    {DefaultRules,
     [given |-> TRUE, source |-> "cal1", precedence |-> NoPrecedence,
      skip_same_source |-> FALSE]}

SaveCleanupCandidates == Save(SeqsUpTo(CleanupCandidates, MaxBatch), CleanupRuleSets)

RunCleanup ==
    /\ last = NoCall
    /\ db_file
    /\ \E order \in Orders(appointments) :
          appointments' = cleanup_duplicates(appointments, order)
    /\ last' = Called("cleanup_duplicates")
    /\ UNCHANGED <<ignored_base_ids, ignored_event_ids, clock, db_file>>

NextCleanup == SaveCleanupCandidates \/ RunCleanup \/ CallerContinues

SpecCleanup == Init /\ [][NextCleanup]_vars

(***************************************************************************)
(* Properties.  IsSave and the operators below read the call that `last`   *)
(* records.                                                                *)
(***************************************************************************)
IsSave == last.op = "save_appointments"

\* the call saved the one candidate e
SavedOne(e) == IsSave /\ last.appts = <<e>>

\* e has an id and values the storage can bind
Storable(e) == e.keys # {} /\ ~Falsy(Get(e, "id", Null)) /\ Bindable(Values(e))

\* what the duplicate finder answers for candidate e on a table
DuplicateOf(table, e) ==
    find_duplicate(table, Get(e, "subject", ""), Get(e, "start_time", EmptyText),
                   Get(e, "organizer_email", ""), Get(e, "source", ""),
                   Get(e, "id", Null))

\* the row of a table with the given id
RowOf(table, id) == table[CHOOSE i \in DOMAIN table : table[i].id = id]

\* row r holds the values of candidate e in its eleven mutable columns
HoldsValues(r, e) ==
    /\ r.subject = Values(e).subject
    /\ r.start_time = Values(e).start_time
    /\ r.end_time = Values(e).end_time
    /\ r.location = Values(e).location
    /\ r.organizer_email = Values(e).organizer_email
    /\ r.organizer_name = Values(e).organizer_name
    /\ r.attendees = Values(e).attendees
    /\ r.body_preview = Values(e).body_preview
    /\ r.is_all_day = Values(e).is_all_day
    /\ r.source = Values(e).source

\* C1: after any sequence of save_appointments calls from the empty store, no
\* two rows of the appointments table have the same id.
C1_UniqueIds ==
    \A i, j \in DOMAIN appointments :
        appointments[i].id = appointments[j].id => i = j

\* C1 witness: a call has inserted a second row beside a row of another id
C1_Witness ==
    /\ IsSave
    /\ Len(last.before) = 1
    /\ Len(appointments) = 2
    /\ last.counts = <<1, 0>>

\* C2: on a table that holds neither a row with the id of a storable
\* candidate nor a duplicate of it, saving the candidate alone without rules
\* returns (1, 0), saving it again the same way returns (0, 1), and the table
\* then holds exactly one row with its id.
C2_InsertThenUpdate ==
    last = NoCall =>
        \A e \in Events :
            (/\ Storable(e)
             /\ RowsWithId(appointments, e.id) = {}
             /\ DuplicateOf(appointments, e) = Null)
            => LET first == save_appointments(appointments, <<e>>, DefaultRules, clock)
                   second == save_appointments(first.table, <<e>>, DefaultRules, clock + 1)
               IN  /\ ~first.raised /\ first.counts = <<1, 0>>
                   /\ ~second.raised /\ second.counts = <<0, 1>>
                   /\ Cardinality({i \in DOMAIN second.table :
                                      second.table[i].id = e.id}) = 1

\* C2 witness: the second of two such calls has returned (0, 1) on the table
\* that the first one left
C2_Witness ==
    \E e \in Events :
        /\ Storable(e)
        /\ SavedOne(e)
        /\ ~last.rules.given
        /\ last.before = <<NewRow(e.id, Values(e), 0)>>
        /\ last.counts = <<0, 1>>
        /\ Cardinality({i \in DOMAIN appointments : appointments[i].id = e.id}) = 1

\* the UTC second that a timestamp string denotes
UtcOf(text) == normalize_to_utc(parse_iso_datetime(text)).wall

\* both strings parse and their UTC times are less than 60 seconds apart
SameStart(a, b) ==
    /\ ~parse_iso_datetime(a).none
    /\ ~parse_iso_datetime(b).none
    /\ Abs(UtcOf(a) - UtcOf(b)) < 60

\* row r and candidate e have the same subject, organizer and start
SameEvent(r, e) ==
    /\ r.subject = Values(e).subject
    /\ OrEmpty(r.organizer_email) = OrEmpty(Values(e).organizer_email)
    /\ SameStart(r.start_time, Values(e).start_time)

\* the priority that the rules of the call give a source
Priority(source) == PrecedenceGet(EffectiveRules(last.rules).precedence, source)

\* the call saved the one candidate e of a source of its own, named by the
\* rules as the batch source, on a table of one row of another id and another
\* source that is the same event
CrossSourceDuplicate(e) ==
    /\ SavedOne(e)
    /\ Storable(e)
    /\ Len(last.before) = 1
    /\ last.before[1].id # e.id
    /\ SameEvent(last.before[1], e)
    /\ ~Falsy(last.before[1].source)
    /\ ~Falsy(Values(e).source)
    /\ last.before[1].source # Values(e).source
    /\ last.rules.given
    /\ last.rules.source = Values(e).source

\* C3: precedence tie: a candidate of source cal2 that is the same event as
\* the one row, of source cal1 and another id, is skipped when both sources
\* have equal priority and skip_same_source is false: the row is unchanged
\* and the table holds one row.
C3_TieKeepsIncumbent ==
    \A e \in Events :
        (/\ CrossSourceDuplicate(e)
         /\ Priority(Values(e).source) = Priority(last.before[1].source)
         /\ ~last.rules.skip_same_source)
        => /\ ~last.raised
           /\ appointments = last.before
           /\ last.counts = <<0, 0>>

\* C4: precedence override: when the candidate's source has the higher
\* priority, the table still holds one row, with the id of the old row and the
\* values of the candidate, and the call returns (0, 1).
C4_HigherPriorityOverwrites ==
    \A e \in Events :
        (/\ CrossSourceDuplicate(e)
         /\ Priority(Values(e).source) > Priority(last.before[1].source))
        => /\ ~last.raised
           /\ Len(appointments) = 1
           /\ appointments[1].id = last.before[1].id
           /\ HoldsValues(appointments[1], e)
           /\ last.counts = <<0, 1>>

\* the rows of a table without their timestamps
Content(table) ==
    {[table[i] EXCEPT !.created_at = 0, !.updated_at = 0] : i \in DOMAIN table}

\* C5: a call with the batch <<a, b>> that returns leaves the rows (but for
\* their timestamps) and returns the total counts of a call with <<a>>
\* followed by a call with <<b>>, under the same rules on the same table.
C5_BatchAsSequence ==
    (IsSave /\ Len(last.appts) = 2 /\ ~last.raised)
    => LET first == save_appointments(last.before, <<last.appts[1]>>,
                                      last.rules, clock - 1)
           second == save_appointments(first.table, <<last.appts[2]>>,
                                       last.rules, clock - 1)
       IN  (~first.raised /\ ~second.raised)
           => /\ Content(appointments) = Content(second.table)
              /\ last.counts = <<first.counts[1] + second.counts[1],
                                 first.counts[2] + second.counts[2]>>

CanBind(e) == Bindable(Values(e))

\* C6: a call whose batch holds a candidate that the storage cannot write and
\* another that it can returns, and leaves the table and the counts of the
\* same call without the first candidate: the other candidates' writes are
\* there and nothing is rolled back.
C6_FailureIsIsolated ==
    (/\ IsSave
     /\ \E i \in DOMAIN last.appts : ~CanBind(last.appts[i])
     /\ \E j \in DOMAIN last.appts : Storable(last.appts[j]))
    => LET expected == save_appointments(last.before, SelectSeq(last.appts, CanBind),
                                         last.rules, clock - 1)
       IN  /\ ~last.raised
           /\ appointments = expected.table
           /\ last.counts = expected.counts

\* row r passes the fine-grained check of the duplicate finder for candidate e
Accepts(r, e, exclude_id) ==
    /\ r.id # exclude_id
    /\ r.subject = e.subject
    /\ r.source = e.source
    /\ OrEmpty(r.organizer_email) = OrEmpty(e.organizer_email)
    /\ SameStart(r.start_time, e.start_time)

\* C7: whenever the table holds a row that the fine-grained check accepts,
\* find_duplicate returns the id of such a row, in whatever form the two start
\* times are written.
C7_WindowKeepsEveryMatch ==
    last.op = "find_duplicate"
    => ((\E i \in DOMAIN appointments :
            Accepts(appointments[i], last.appts[1], last.exclude_id))
        => \E i \in DOMAIN appointments :
              /\ Accepts(appointments[i], last.appts[1], last.exclude_id)
              /\ last.found = appointments[i].id)

\* row r has the subject, source and start of candidate e and another,
\* non-empty organizer
OtherOrganizer(r, e) ==
    /\ r.subject = Values(e).subject
    /\ r.source = Values(e).source
    /\ r.start_time = Values(e).start_time
    /\ r.id # e.id
    /\ OrEmpty(r.organizer_email) # ""
    /\ OrEmpty(Values(e).organizer_email) # ""
    /\ OrEmpty(r.organizer_email) # OrEmpty(Values(e).organizer_email)

\* C8: find_duplicate never answers with a row of another organizer; so a
\* storable candidate with a new id, saved alone under any rules, leaves every
\* row of its subject, source and start but another organizer as it was, and
\* is inserted as a row of its own when the table holds only such rows.
C8_OrganizersNeverMerged ==
    /\ \A e \in Events :
          DuplicateOf(appointments, e) # Null
          => OrEmpty(RowOf(appointments, DuplicateOf(appointments, e)).organizer_email)
                 = OrEmpty(Values(e).organizer_email)
    /\ \A e \in Events :
          (SavedOne(e) /\ Storable(e) /\ RowsWithId(last.before, e.id) = {})
          => /\ \A i \in DOMAIN last.before :
                   OtherOrganizer(last.before[i], e)
                   => i \in DOMAIN appointments /\ appointments[i] = last.before[i]
             /\ (\A i \in DOMAIN last.before : OtherOrganizer(last.before[i], e))
                => /\ appointments = Append(last.before, NewRow(e.id, Values(e), clock - 1))
                   /\ last.counts = <<1, 0>>

\* C8 witness: a candidate has been saved beside the one row, which differs
\* from it in its id and its organizer only, and the table holds both
C8_Witness ==
    \E e \in Events :
        /\ SavedOne(e)
        /\ Storable(e)
        /\ Len(last.before) = 1
        /\ OtherOrganizer(last.before[1], e)
        /\ last.rules.given
        /\ Len(appointments) = 2
        /\ appointments[1] = last.before[1]
        /\ appointments[2].id = e.id

\* the call saved the one candidate e, whose id the table did not hold and
\* for which the duplicate finder answered with a row
DuplicateFound(e) ==
    /\ SavedOne(e)
    /\ e.keys # {}
    /\ ~Falsy(Get(e, "id", Null))
    /\ RowsWithId(last.before, e.id) = {}
    /\ DuplicateOf(last.before, e) # Null

\* the source of the row that the duplicate finder answered with
DuplicateSource(e) == SelectSource(last.before, DuplicateOf(last.before, e))

\* the batch source of the call
BatchSource == EffectiveRules(last.rules).source

\* C9: when a duplicate is found and the batch source and the duplicate's
\* source are non-empty with equal priority and skip_same_source is false,
\* the call writes nothing: no row is inserted, the duplicate's row is
\* unchanged and neither count is incremented.
C9_TieAfterDuplicateWritesNothing ==
    \A e \in Events :
        (/\ DuplicateFound(e)
         /\ ~Falsy(BatchSource)
         /\ ~Falsy(DuplicateSource(e))
         /\ Priority(BatchSource) = Priority(DuplicateSource(e))
         /\ ~EffectiveRules(last.rules).skip_same_source)
        => /\ ~last.raised
           /\ appointments = last.before
           /\ last.counts = <<0, 0>>

\* C10 as claimed: when a duplicate is found and the batch source or the
\* duplicate's source is empty, the duplicate's row is updated in place with
\* the candidate's values and the candidate is counted as an update.
C10_UnsourcedDuplicateOverwrites ==
    \A e \in Events :
        (/\ DuplicateFound(e)
         /\ Falsy(BatchSource) \/ Falsy(DuplicateSource(e)))
        => /\ ~last.raised
           /\ Len(appointments) = Len(last.before)
           /\ HoldsValues(RowOf(appointments, DuplicateOf(last.before, e)), e)
           /\ RowOf(appointments, DuplicateOf(last.before, e)).updated_at = clock - 1
           /\ last.counts = <<0, 1>>

\* C10 as amended: when a duplicate is found and the batch source or the
\* duplicate's source is empty, the candidate is skipped: the call writes
\* nothing and counts nothing.
C10_UnsourcedDuplicateSkipped ==
    \A e \in Events :
        (/\ DuplicateFound(e)
         /\ Falsy(BatchSource) \/ Falsy(DuplicateSource(e)))
        => /\ ~last.raised
           /\ appointments = last.before
           /\ last.counts = <<0, 0>>

\* C10 witness: a candidate saved without rules had a duplicate and was skipped
C10_Witness ==
    \E e \in Events :
        /\ DuplicateFound(e)
        /\ ~last.rules.given
        /\ appointments = last.before
        /\ last.counts = <<0, 0>>

\* C10, the other case reached: a candidate saved under rules that name a
\* batch source had a duplicate whose stored source is empty, and was skipped
C10_WitnessUnsourcedRow ==
    \E e \in Events :
        /\ DuplicateFound(e)
        /\ ~Falsy(BatchSource)
        /\ Falsy(DuplicateSource(e))
        /\ appointments = last.before

\* the call saved the one candidate e, whose id the table held in a row
IdFound(e) ==
    /\ SavedOne(e)
    /\ e.keys # {}
    /\ ~Falsy(Get(e, "id", Null))
    /\ RowsWithId(last.before, e.id) # {}

\* the source of the row with the id of e
ExistingSource(e) == SelectSource(last.before, e.id)

\* the call found the id of e with a tie that is not the skipped one: both
\* sources non-empty, equal priority, different sources or skip_same_source
\* false
TieOnId(e) ==
    /\ IdFound(e)
    /\ ~Falsy(BatchSource)
    /\ ~Falsy(ExistingSource(e))
    /\ Priority(BatchSource) = Priority(ExistingSource(e))
    /\ \/ BatchSource # ExistingSource(e)
       \/ ~EffectiveRules(last.rules).skip_same_source

\* C11 as claimed: on such a tie the existing row is left untouched, its
\* updated_at included, and the candidate is not counted as an update.
C11_TieOnIdLeavesRow ==
    \A e \in Events :
        TieOnId(e) => /\ ~last.raised
                      /\ appointments = last.before
                      /\ last.counts = <<0, 0>>

\* C11 as amended: on such a tie the UPDATE of the existing row runs: unless
\* the storage refuses the candidate's values, the row holds them afterwards
\* with updated_at the time of the call, no row is added, and the call
\* returns (0, 1).
C11_TieOnIdUpdatesRow ==
    \A e \in Events :
        TieOnId(e) =>
            IF last.raised
            THEN ~CanBind(e) /\ appointments = last.before
            ELSE /\ Len(appointments) = Len(last.before)
                 /\ HoldsValues(RowOf(appointments, e.id), e)
                 /\ RowOf(appointments, e.id).updated_at = clock - 1
                 /\ last.counts = <<0, 1>>

\* C11 witness: a row of source cal1 was updated by a candidate of its id
\* saved under the batch source cal2 with equal priorities
C11_Witness ==
    \E e \in Events :
        /\ TieOnId(e)
        /\ BatchSource # ExistingSource(e)
        /\ RowOf(last.before, e.id).source # Values(e).source
        /\ HoldsValues(RowOf(appointments, e.id), e)
        /\ last.counts = <<0, 1>>

\* C11, the other case reached: the same source, skip_same_source false
C11_WitnessSameSource ==
    \E e \in Events :
        /\ TieOnId(e)
        /\ BatchSource = ExistingSource(e)
        /\ RowOf(appointments, e.id).updated_at > RowOf(last.before, e.id).updated_at
        /\ last.counts = <<0, 1>>

\* the call found the id of e in a row whose non-empty source has a higher
\* priority than the non-empty batch source
LowerThanExisting(e) ==
    /\ IdFound(e)
    /\ ~Falsy(BatchSource)
    /\ ~Falsy(ExistingSource(e))
    /\ Priority(BatchSource) < Priority(ExistingSource(e))

\* the call found a duplicate of e whose non-empty source has a higher
\* priority than the non-empty batch source
LowerThanDuplicate(e) ==
    /\ DuplicateFound(e)
    /\ ~Falsy(BatchSource)
    /\ ~Falsy(DuplicateSource(e))
    /\ Priority(BatchSource) < Priority(DuplicateSource(e))

\* C12: a candidate of a batch source of lower priority than the source of
\* the row found, by its id or by the duplicate finder, writes nothing: every
\* row is as before, updated_at included, no row is added, and the call
\* returns (0, 0).
C12_LowerPriorityNeverWrites ==
    \A e \in Events :
        (LowerThanExisting(e) \/ LowerThanDuplicate(e))
        => /\ ~last.raised
           /\ appointments = last.before
           /\ last.counts = <<0, 0>>

\* C12 witness: a candidate whose values differ from those of the row with
\* its id was saved under a batch source of lower priority
C12_Witness ==
    \E e \in Events :
        /\ LowerThanExisting(e)
        /\ ~HoldsValues(RowOf(last.before, e.id), e)
        /\ appointments = last.before

\* C12, the other case reached: the row of higher priority was found by the
\* duplicate finder
C12_WitnessDuplicate ==
    \E e \in Events :
        /\ LowerThanDuplicate(e)
        /\ Storable(e)
        /\ appointments = last.before

\* the call found a duplicate of the storable candidate e whose non-empty
\* source has a lower priority than the non-empty batch source: OVERWRITE
OverwritesDuplicate(e) ==
    /\ DuplicateFound(e)
    /\ Storable(e)
    /\ ~Falsy(BatchSource)
    /\ ~Falsy(DuplicateSource(e))
    /\ Priority(BatchSource) > Priority(DuplicateSource(e))

\* C13: when a found duplicate is overwritten, the number of rows is
\* unchanged, no row has the candidate's id, the duplicate's row keeps its id
\* and its place and holds the candidate's values, every other row is as
\* before, and the call returns (0, 1).
C13_OverwriteKeepsDuplicateId ==
    \A e \in Events :
        OverwritesDuplicate(e) =>
            LET d == DuplicateOf(last.before, e) IN
            /\ ~last.raised
            /\ Len(appointments) = Len(last.before)
            /\ RowsWithId(appointments, e.id) = {}
            /\ \A i \in DOMAIN appointments :
                  /\ appointments[i].id = last.before[i].id
                  /\ appointments[i].id # d => appointments[i] = last.before[i]
            /\ HoldsValues(RowOf(appointments, d), e)
            /\ last.counts = <<0, 1>>

\* C13 witness: the row A took the location of the candidate B that
\* overwrote it
C13_Witness ==
    \E e \in Events :
        /\ OverwritesDuplicate(e)
        /\ RowOf(last.before, DuplicateOf(last.before, e)).location # Values(e).location
        /\ RowOf(appointments, DuplicateOf(last.before, e)).location = Values(e).location
        /\ last.counts = <<0, 1>>

\* the time that the call recorded in `last` read from the clock
NowOfCall == clock - 1

\* the row that a single-candidate call of e with counts (0, 1) has updated:
\* the row with the id of e, or else the duplicate found for e
UpdatedRow(e) ==
    IF RowsWithId(last.before, e.id) # {}
    THEN RowOf(appointments, e.id)
    ELSE RowOf(appointments, DuplicateOf(last.before, e))

\* C16: a call that returns leaves the created_at of every row that was
\* there before as it was; a row it adds has created_at = updated_at = the
\* time of the call; a row it changes, and the row that a counted update
\* wrote, has updated_at = the time of the call.
C16_CreatedAtFixedUpdatedAtBumped ==
    (IsSave /\ ~last.raised) =>
        /\ Len(appointments) >= Len(last.before)
        /\ \A i \in DOMAIN last.before :
              /\ appointments[i].id = last.before[i].id
              /\ appointments[i].created_at = last.before[i].created_at
              /\ appointments[i] # last.before[i]
                    => appointments[i].updated_at = NowOfCall
        /\ \A i \in DOMAIN appointments \ DOMAIN last.before :
              /\ appointments[i].created_at = NowOfCall
              /\ appointments[i].updated_at = NowOfCall
        /\ \A e \in Events :
              (SavedOne(e) /\ last.counts = <<0, 1>>)
              => UpdatedRow(e).updated_at = NowOfCall

\* C16 witness: a row inserted by an earlier call was updated by a later
\* one: its created_at is the earlier time, its updated_at the later
C16_Witness ==
    \E e \in Events :
        /\ SavedOne(e)
        /\ last.counts = <<0, 1>>
        /\ UpdatedRow(e).created_at < NowOfCall
        /\ UpdatedRow(e).updated_at = NowOfCall

\* C16, the other case reached: the updated row is an overwritten duplicate
C16_WitnessDuplicate ==
    \E e \in Events :
        /\ OverwritesDuplicate(e)
        /\ UpdatedRow(e).created_at < NowOfCall
        /\ UpdatedRow(e).updated_at = NowOfCall

\* the optional text columns of a row
OptionalColumns == {"location", "organizer_email", "organizer_name", "attendees",
                    "body_preview"}

\* C18: no row of the table holds a null in an optional text column.
C18_NoNullInOptionalColumns ==
    \A i \in DOMAIN appointments :
        \A c \in OptionalColumns : appointments[i][c] # Null

\* the place of the last _ of an id, 0 when it has none
LastUnderscore(id) ==
    IF Contains(id, "_")
    THEN CHOOSE k \in DOMAIN id : id[k] = "_" /\ \A j \in (k + 1)..Len(id) : id[j] # "_"
    ELSE 0

\* tail is 15 characters long: 8 digits, the letter T and 6 digits
OccurrenceSuffix(tail) ==
    /\ Len(tail) = 15
    /\ \A i \in 1..15 : IF i = 9 THEN tail[i] = "T" ELSE isdigit(tail[i])

\* C20: get_base_id_from_event_id(id) is id up to its last _ when what
\* follows that _ is 15 characters long, 8 digits, T and 6 digits, and is id
\* itself for every other id.
C20_BaseIdExtraction ==
    last.op = "get_base_id_from_event_id" =>
        LET id == last.event_id
            k == LastUnderscore(id)
        IN  IF k > 0 /\ OccurrenceSuffix(SubSeq(id, k + 1, Len(id)))
            THEN last.base_id = SubSeq(id, 1, k - 1)
            ELSE last.base_id = id

\* C20 witness: abc_def_20251201T150000 gave abc_def
C20_Witness ==
    /\ last.op = "get_base_id_from_event_id"
    /\ last.event_id = <<"a", "b", "c", "_", "d", "e", "f", "_">>
                           \o DateDigits \o <<"T">> \o TimeDigits
    /\ last.base_id = <<"a", "b", "c", "_", "d", "e", "f">>

\* C20, the other case reached: abc_def gave abc_def
C20_WitnessUnchanged ==
    /\ last.op = "get_base_id_from_event_id"
    /\ last.event_id = <<"a", "b", "c", "_", "d", "e", "f">>
    /\ last.base_id = last.event_id

IsQuery == last.op = "query_events"

\* the recorded query returned an event with that id
Returned(id) == \E k \in DOMAIN last.events : last.events[k].id = id

\* the day that the first 10 characters of the row's start_time name
StartDay(row) == row.start_time.wall \div 86400

\* the row's start day lies in [today - days_back, today + days_ahead] of the
\* recorded query
InQueriedDays(row) ==
    /\ StartDay(row) >= clock - last.days_back
    /\ StartDay(row) <= clock + last.days_ahead

\* the row has the source that the recorded query asked for, if it asked
SourceAskedFor(row) == Falsy(last.source) \/ row.source = last.source

\* the row's id is in the occurrence-suppression set, or its base id in the
\* series-suppression set
Suppressed(row) ==
    \/ row.id \in get_ignored_event_ids(ignored_event_ids)
    \/ BaseIdOf(row.id) \in get_ignored_base_ids(ignored_base_ids)

\* the rows of the series base_id that a query of the present tables returns
SeriesReturned(base_id, days_back, days_ahead, source) ==
    LET q == query_events(appointments, ignored_base_ids, ignored_event_ids,
                          days_back, days_ahead, source, clock)
    IN  {i \in DOMAIN appointments :
            /\ BaseIdOf(appointments[i].id) = base_id
            /\ \E k \in DOMAIN q : q[k].id = appointments[i].id}

\* the rows of the series base_id that the arguments of a query ask for and
\* that no occurrence suppression hides
SeriesAskedFor(base_id, days_back, days_ahead, source) ==
    {i \in DOMAIN appointments :
        /\ BaseIdOf(appointments[i].id) = base_id
        /\ StartDay(appointments[i]) >= clock - days_back
        /\ StartDay(appointments[i]) <= clock + days_ahead
        /\ (Falsy(source) \/ appointments[i].source = source)
        /\ appointments[i].id \notin get_ignored_event_ids(ignored_event_ids)}

\* C14: after add_ignored_base_id(B) no query returns a stored occurrence of
\* base id B; after remove_ignored_base_id(B) every query returns again the
\* occurrences of B in its window; neither call changes a row of the
\* appointments table.
C14_SuppressionRoundTrip ==
    /\ last.op = "add_ignored_base_id" =>
          /\ appointments = last.before
          /\ \A b \in DaysArgs, a \in DaysArgs, src \in SourceArgs :
                SeriesReturned(last.id, b, a, src) = {}
    /\ last.op = "remove_ignored_base_id" =>
          /\ appointments = last.before
          /\ \A b \in DaysArgs, a \in DaysArgs, src \in SourceArgs :
                SeriesReturned(last.id, b, a, src) = SeriesAskedFor(last.id, b, a, src)

\* C14 witness: the series s was suppressed, the suppression has been
\* removed, and a query returns an occurrence of s again
C14_Witness ==
    /\ last.op = "remove_ignored_base_id"
    /\ last.id = "s"
    /\ "s" \in get_ignored_base_ids(last.base_ids_before)
    /\ \E i \in DOMAIN appointments : appointments[i].id = Occ1
    /\ SeriesReturned("s", 1, 1, Null) # {}

\* C14, the other case reached: the series s has just been suppressed while
\* the table holds an occurrence that the query asks for
C14_WitnessSuppressed ==
    /\ last.op = "add_ignored_base_id"
    /\ last.id = "s"
    /\ "s" \notin get_ignored_base_ids(last.base_ids_before)
    /\ SeriesAskedFor("s", 1, 1, Null) # {}
    /\ SeriesReturned("s", 1, 1, Null) = {}

\* C15: a query returns a row whose start day is in its window and whose
\* source it asks for if and only if the row's id is not in the
\* occurrence-suppression set and its base id not in the series-suppression
\* set.
C15_SuppressionFilter ==
    IsQuery =>
        \A i \in DOMAIN appointments :
            (InQueriedDays(appointments[i]) /\ SourceAskedFor(appointments[i]))
            => (Returned(appointments[i].id) <=> ~Suppressed(appointments[i]))

\* C15 witness: with the occurrence Occ1 suppressed, a query whose window
\* holds Occ1 and Occ2 returned Occ2 and not Occ1
C15_Witness ==
    /\ IsQuery
    /\ get_ignored_event_ids(ignored_event_ids) = {Occ1}
    /\ get_ignored_base_ids(ignored_base_ids) \subseteq {Occ1}
    /\ \E i, j \in DOMAIN appointments :
          /\ appointments[i].id = Occ1 /\ InQueriedDays(appointments[i])
          /\ appointments[j].id = Occ2 /\ InQueriedDays(appointments[j])
    /\ Returned(Occ2)
    /\ ~Returned(Occ1)

\* C15, the other case reached: with the series s suppressed, a query whose
\* window holds Occ2 and the event s returned neither
C15_WitnessSeries ==
    /\ IsQuery
    /\ "s" \in get_ignored_base_ids(ignored_base_ids)
    /\ \E i, j \in DOMAIN appointments :
          /\ appointments[i].id = "s" /\ InQueriedDays(appointments[i])
          /\ appointments[j].id = Occ2 /\ InQueriedDays(appointments[j])
    /\ last.events = <<>>

\* C17: no call of save_appointments, of the suppression operations or of
\* query_events removes an id from the appointments table.
C17_IdsOnlyGrow == [][Ids(appointments) \subseteq Ids(appointments')]_vars

\* C17 witness: a save has updated a row while a suppression was in place,
\* and the ids of the table before the call are all there
C17_Witness ==
    /\ IsSave
    /\ last.counts = <<0, 1>>
    /\ ignored_base_ids # {}
    /\ last.before # <<>>
    /\ Ids(last.before) \subseteq Ids(appointments)

\* C19: a query without a source returns an unsuppressed row if and only if
\* the row's start day lies in [today - days_back, today + days_ahead].
C19_WindowBoundary ==
    (IsQuery /\ last.source = Null) =>
        \A i \in DOMAIN appointments :
            ~Suppressed(appointments[i])
            => (Returned(appointments[i].id) <=> InQueriedDays(appointments[i]))

\* C19 witness: a query returned a row dated today + days_ahead and did not
\* return a row dated today + days_ahead + 1
C19_Witness ==
    /\ IsQuery
    /\ last.source = Null
    /\ \E i, j \in DOMAIN appointments :
          /\ ~Suppressed(appointments[i])
          /\ StartDay(appointments[i]) = clock + last.days_ahead
          /\ Returned(appointments[i].id)
          /\ ~Suppressed(appointments[j])
          /\ StartDay(appointments[j]) = clock + last.days_ahead + 1
          /\ ~Returned(appointments[j].id)

(***************************************************************************)
(* C21.  Each suppression table holds at most one row per id.  After an    *)
(* add of an id the table holds that id with the subject and reason of     *)
(* the add, in place of the row the id had before; after a remove it does  *)
(* not hold the id, and a remove of an id that is not there changes         *)
(* nothing.  Neither operation touches the rows of other ids, so an id is  *)
(* in the table exactly when its last operation was an add.                *)
(***************************************************************************)
SeriesRows(table, id) == {r \in table : r.base_id = id}

OccurrenceRows(table, id) == {r \in table : r.event_id = id}

C21_AddOrReplace ==
    /\ \A id \in BaseIdArgs : Cardinality(SeriesRows(ignored_base_ids, id)) <= 1
    /\ \A id \in EventIdArgs : Cardinality(OccurrenceRows(ignored_event_ids, id)) <= 1
    /\ last.op = "add_ignored_base_id" =>
          /\ \E r \in SeriesRows(ignored_base_ids, last.id) :
                r.subject = last.subject /\ r.reason = last.reason
          /\ ignored_base_ids \ SeriesRows(ignored_base_ids, last.id)
                = last.base_ids_before \ SeriesRows(last.base_ids_before, last.id)
    /\ last.op = "remove_ignored_base_id" =>
          /\ SeriesRows(ignored_base_ids, last.id) = {}
          /\ ignored_base_ids
                = last.base_ids_before \ SeriesRows(last.base_ids_before, last.id)
          /\ SeriesRows(last.base_ids_before, last.id) = {}
                => ignored_base_ids = last.base_ids_before
    /\ last.op = "add_ignored_event_id" =>
          /\ \E r \in OccurrenceRows(ignored_event_ids, last.id) :
                r.subject = last.subject /\ r.reason = last.reason
          /\ ignored_event_ids \ OccurrenceRows(ignored_event_ids, last.id)
                = last.event_ids_before \ OccurrenceRows(last.event_ids_before, last.id)
    /\ last.op = "remove_ignored_event_id" =>
          /\ OccurrenceRows(ignored_event_ids, last.id) = {}
          /\ ignored_event_ids
                = last.event_ids_before \ OccurrenceRows(last.event_ids_before, last.id)
          /\ OccurrenceRows(last.event_ids_before, last.id) = {}
                => ignored_event_ids = last.event_ids_before

\* a series that was ignored under one subject is ignored again under another
C21_Witness ==
    /\ last.op = "add_ignored_base_id"
    /\ \E r \in SeriesRows(last.base_ids_before, last.id) :
          r.subject # last.subject /\ r.reason # last.reason
    /\ Cardinality(SeriesRows(ignored_base_ids, last.id)) = 1
    /\ Cardinality(ignored_base_ids) = 2

(***************************************************************************)
(* C22.  The two suppression tables and the appointments are independent:  *)
(* an add or a remove on the series table leaves the occurrence table and  *)
(* the appointments as they were, an add or a remove on the occurrence     *)
(* table leaves the series table and the appointments as they were, and    *)
(* save_appointments and query_events leave both suppression tables as     *)
(* they were.                                                              *)
(***************************************************************************)
C22_Independent ==
    [][/\ last'.op \in {"add_ignored_base_id", "remove_ignored_base_id"}
            => /\ ignored_event_ids' = ignored_event_ids
               /\ appointments' = appointments
       /\ last'.op \in {"add_ignored_event_id", "remove_ignored_event_id"}
            => /\ ignored_base_ids' = ignored_base_ids
               /\ appointments' = appointments
       /\ last'.op \in {"save_appointments", "query_events"}
            => /\ ignored_base_ids' = ignored_base_ids
               /\ ignored_event_ids' = ignored_event_ids]_vars

\* a series is ignored while one of its occurrences is suppressed and stored
C22_Witness ==
    /\ last.op = "add_ignored_base_id"
    /\ last.id = "s"
    /\ Occ1 \in get_ignored_event_ids(last.event_ids_before)
    /\ Occ1 \in get_ignored_event_ids(ignored_event_ids)
    /\ Occ1 \in Ids(last.before)
    /\ appointments = last.before

(***************************************************************************)
(* C25.  compare_datetimes(a, b, t) is true exactly when a and b, each     *)
(* taken to UTC (a naive one as it stands), lie strictly less than t       *)
(* seconds apart: a distance of exactly t gives false, and swapping a and  *)
(* b gives the same answer.                                                *)
(***************************************************************************)
UtcSeconds(dt) == IF dt.aware THEN dt.wall - dt.utcoffset ELSE dt.wall

Apart(a, b) ==
    IF UtcSeconds(a) >= UtcSeconds(b)
    THEN UtcSeconds(a) - UtcSeconds(b)
    ELSE UtcSeconds(b) - UtcSeconds(a)

Replayed(appts, rules) ==
    save_appointments(last.before, appts, rules, NowOfCall)

DiffersOnlyInSourceEntry(rules) ==
    /\ rules.given /\ last.rules.given
    /\ rules.source # last.rules.source
    /\ rules.precedence = last.rules.precedence
    /\ rules.skip_same_source = last.rules.skip_same_source

DiffersOnlyInSourceField(e, f) ==
    /\ e # f
    /\ \A k \in Columns \ {"source"} : (k \in e.keys <=> k \in f.keys) /\ e[k] = f[k]

C26_DecisionFromOwnSource ==
    \A e \in Events :
        IdFound(e) /\ Storable(e) =>
            \A rules \in RuleSets :
                DiffersOnlyInSourceEntry(rules) =>
                    Replayed(<<e>>, rules).counts = last.counts

\* C26 as the code has it: the decision is made from the `source` entry of
\* the rules and the row's source, so the same call for a candidate that
\* differs only in its own source field decides the same.
C26_DecisionFromRulesSource ==
    \A e \in Events :
        IdFound(e) /\ Storable(e) =>
            \A f \in Events :
                DiffersOnlyInSourceField(e, f) =>
                    /\ Replayed(<<f>>, last.rules).counts = last.counts
                    /\ Replayed(<<f>>, last.rules).raised = last.raised

\* B of source cal2 meets its own row of source cal2 in a batch of source
\* cal1, which the mapping puts below cal2: the row is kept, where the
\* candidate's own source would have tied and overwritten
C26_Witness ==
    \E e \in Events :
        /\ IdFound(e) /\ Storable(e)
        /\ Get(e, "source", "") = "cal2"
        /\ ExistingSource(e) = "cal2"
        /\ last.rules.given /\ last.rules.source = "cal1"
        /\ last.rules.precedence = Cal2First
        /\ last.counts = <<0, 0>>
        /\ \E f \in Events : DiffersOnlyInSourceField(e, f)

(***************************************************************************)
(* C27.  For every call of save_appointments that returns: the inserted    *)
(* count is the number of rows after the call less the number before it;   *)
(* candidate by candidate, the updated count goes up by one or stays,      *)
(* it goes up only for a candidate with an id that inserts no row, and     *)
(* where it stays no row that was there is changed; both counts together   *)
(* are at most the number of candidates with a non-empty id; an empty      *)
(* candidate and one without id change nothing and count in neither.       *)
(***************************************************************************)
\* the call recorded in `last` after its first n candidates
AfterCandidates(n) == Replayed(SubSeq(last.appts, 1, n), last.rules)

HasId(e) == e.keys # {} /\ ~Falsy(Get(e, "id", Null))

WithId(appts) == {i \in DOMAIN appts : HasId(appts[i])}

\* the rows of table t that table u holds unchanged at the same place
KeepsRows(t, u) == Len(u) >= Len(t) /\ \A i \in DOMAIN t : u[i] = t[i]

C27_Counts ==
    IsSave /\ ~last.raised =>
        /\ last.counts[1] = Len(appointments) - Len(last.before)
        /\ last.counts[1] + last.counts[2] <= Cardinality(WithId(last.appts))
        /\ AfterCandidates(Len(last.appts)).table = appointments
        /\ AfterCandidates(Len(last.appts)).counts = last.counts
        /\ \A n \in DOMAIN last.appts :
              LET was == AfterCandidates(n - 1)
                  is  == AfterCandidates(n)
                  inserted == is.counts[1] - was.counts[1]
                  updated  == is.counts[2] - was.counts[2]
              IN  /\ inserted \in {0, 1} /\ updated \in {0, 1}
                  /\ inserted + updated <= 1
                  /\ Len(is.table) = Len(was.table) + inserted
                  /\ updated = 0 => KeepsRows(was.table, is.table)
                  /\ updated = 1 => HasId(last.appts[n])
                  /\ ~HasId(last.appts[n]) =>
                        is.table = was.table /\ is.counts = was.counts

\* a candidate without id is passed over and the next one overwrites the
\* stored duplicate: one update, no insert, the row changed
C27_Witness ==
    /\ IsSave /\ ~last.raised
    /\ Len(last.appts) = 2
    /\ ~HasId(last.appts[1]) /\ HasId(last.appts[2])
    /\ last.counts = <<0, 1>>
    /\ Len(appointments) = Len(last.before)
    /\ appointments # last.before

(***************************************************************************)
(* C28.  Under one priority mapping, when every batch has a non-empty      *)
(* rules source that is also the source field of each of its candidates,   *)
(* no call lowers the priority of the source stored in a row: the row of   *)
(* an id has after the call a source of at least the priority it had       *)
(* before, an unmapped source counting 0.                                  *)
(***************************************************************************)
MappedPriority(source) ==
    IF source \in DOMAIN PriorityMapping THEN PriorityMapping[source] ELSE 0

C28_PriorityNeverDecreases ==
    [][\A i \in DOMAIN appointments :
          /\ appointments[i].id \in Ids(appointments')
          /\ \A j \in DOMAIN appointments' :
                appointments'[j].id = appointments[i].id =>
                    MappedPriority(appointments'[j].source)
                        >= MappedPriority(appointments[i].source)]_vars

\* a batch of cal1, which is mapped below zero, meets a row of the unmapped
\* source cal3 under its id and leaves it
C28_Witness ==
    /\ IsSave /\ ~last.raised
    /\ last.rules.source = "cal1"
    /\ \E e \in CandidatesOf("cal1") :
          /\ SavedOne(e)
          /\ RowsWithId(last.before, e.id) # {}
          /\ SelectSource(last.before, e.id) = "cal3"
          /\ SelectSource(appointments, e.id) = "cal3"
    /\ last.counts = <<0, 0>>

(***************************************************************************)
(* C23.  The query script rejects a lookahead argument that is not an      *)
(* integer from 0 to 365 before it touches the database: it does not open  *)
(* the database and the file is not created, it prints one JSON error      *)
(* object to standard error and nothing to standard output, and it exits   *)
(* with a status other than 0.  When the database file is missing the      *)
(* script reports an error in the same way and the file is still missing.  *)
(***************************************************************************)
\* the arguments that are no integer from 0 to 365: 366, -1, abc, 3.5, the
\* empty text, 1e2, _1, --1 and 1__0
NotALookahead ==
    {<<"3", "6", "6">>, <<"-", "1">>, <<"a", "b", "c">>, <<"3", ".", "5">>,
     <<>>, <<"1", "e", "2">>, <<"_", "1">>, <<"-", "-", "1">>,
     <<"1", "_", "_", "0">>}

IsScript == last.op = "query_db_api"

Rejected == IsScript /\ Len(last.argv) > 1 /\ last.argv[2] \in NotALookahead

C23_RejectedBeforeStorage ==
    IsScript /\ (Rejected \/ ~last.db_file_before) =>
        /\ ~last.opened
        /\ db_file = last.db_file_before
        /\ appointments = last.before
        /\ last.stdout = <<>>
        /\ Len(last.stderr) = 1
        /\ DOMAIN last.stderr[1] = {"error"}
        /\ last.status # 0

\* the script is run with the argument 366 where no database file exists
C23_Witness ==
    /\ Rejected
    /\ last.argv[2] = <<"3", "6", "6">>
    /\ ~last.db_file_before
    /\ ~db_file
    /\ last.status = 1

(***************************************************************************)
(* C24.  After a run of the cleanup script no two rows whose start_time    *)
(* parses have the same source, subject, start in UTC and organizer (None  *)
(* taken as ''); of the rows that were duplicates of each other in that    *)
(* sense the one that remains has the earliest created_at; a row that had  *)
(* no such duplicate, and a row whose start_time does not parse, is not    *)
(* removed.                                                                *)
(***************************************************************************)
IsCleanup == last.op = "cleanup_duplicates"

Parses(r) == ~parse_iso_datetime(r.start_time).none

\* rows r and q are duplicates of each other as the script's docstring has it
Duplicates(r, q) ==
    /\ Parses(r) /\ Parses(q)
    /\ r.source = q.source
    /\ r.subject = q.subject
    /\ UtcOf(r.start_time) = UtcOf(q.start_time)
    /\ OrEmpty(r.organizer_email) = OrEmpty(q.organizer_email)

C24_CleanupPostcondition ==
    IsCleanup =>
        /\ \A i, j \in DOMAIN appointments :
              i # j => ~Duplicates(appointments[i], appointments[j])
        /\ \A i \in DOMAIN appointments : \A j \in DOMAIN last.before :
              Duplicates(RowOf(last.before, appointments[i].id), last.before[j])
                  => appointments[i].created_at <= last.before[j].created_at
        /\ \A i \in DOMAIN last.before :
              (\/ ~Parses(last.before[i])
               \/ \A j \in DOMAIN last.before :
                     j # i => ~Duplicates(last.before[i], last.before[j]))
                  => last.before[i].id \in Ids(appointments)

====
